---- MODULE Spec2Model ----
(***************************************************************************)
(* Model of src/clean-native-props.ts: the rule catalogue (loadMappings),  *)
(* the rule resolver (findMapping), the element processor (processWidget), *)
(* the spacing aggregator, the document walker                             *)
(* (processDocumentCollection) and the orchestrator (main) with its        *)
(* confirm / flush / commit sequence.                                      *)
(*                                                                         *)
(* Strings are TLA+ strings; a value that is undefined or missing in the   *)
(* source is the empty string, which is falsy in the source as well.       *)
(* The list operations of the model SDK (IList.remove, createIn...) are    *)
(* modelled as succeeding; the exceptions the code itself throws are       *)
(* modelled.                                                               *)
(***************************************************************************)
EXTENDS Integers, Sequences, FiniteSets, TLC

\* ------------------------------------------------------------------------
\* Bounds of the model
\* ------------------------------------------------------------------------
\* number of entries of property-mappings.json drawn from the catalogue
MaxRules == 2
\* number of design properties carried by the widget whose list is free
MaxProps == 2

\* ------------------------------------------------------------------------
\* Generic helpers
\* ------------------------------------------------------------------------
Range(s) == {s[i] : i \in DOMAIN s}

RECURSIVE SubSeqsFrom(_, _, _)
\* the subsequences of s[i..] with at most n elements, order preserved
SubSeqsFrom(s, i, n) ==
    IF i > Len(s) \/ n = 0 THEN {<<>>}
    ELSE SubSeqsFrom(s, i + 1, n)
         \cup {<<s[i]>> \o t : t \in SubSeqsFrom(s, i + 1, n - 1)}

\* ------------------------------------------------------------------------
\* Design property values (pages.DesignPropertyValue.value)
\* ------------------------------------------------------------------------
OptionValue(o) == [tag |-> "Option", option |-> o, properties |-> <<>>]
ToggleValue == [tag |-> "Toggle", option |-> "", properties |-> <<>>]
CompoundValue(entries) == [tag |-> "Compound", option |-> "", properties |-> entries]
UndefinedValue == [tag |-> "Undefined", option |-> "", properties |-> <<>>]

\* an entry of a compound value: key and an option value
Inner(k, o) == [key |-> k, value |-> OptionValue(o)]

\* a design property of a widget or page; id is the object identity
Prop(i, k, v) == [id |-> i, key |-> k, value |-> v]

\* ------------------------------------------------------------------------
\* Rules (PropertyMappingV2) and the rule source
\* ------------------------------------------------------------------------
Rule(p, v, types, a, mp, mv, dir, ty, wp, wv) ==
    [property |-> p, value |-> v, elementTypes |-> types, hasTypes |-> TRUE,
     action |-> a, mappedProperty |-> mp, mappedValue |-> mv,
     mappedDirection |-> dir, mappedType |-> ty,
     widgetProperty |-> wp, widgetValue |-> wv]

\* what Map.get returns for a key that is not in the map
undefined == Rule("", "", <<>>, "undefined", "", "", "", "", "", "")

\* the catalogue the entries of property-mappings.json are drawn from
RuleCatalogue == <<
    Rule("Justify content", "Center", <<"DivContainer", "ActionButton">>, "map",
         "Align content", "Center", "", "", "", ""),
    Rule("Justify content", "Center", <<"*">>, "remove", "", "", "", "", "", ""),
    Rule("Render children horizontal", "true", <<"*">>, "map",
         "Align content", "Row", "", "", "", ""),
    Rule("Margin top", "Inner", <<"*">>, "map",
         "Spacing", "Small", "top", "margin", "", ""),
    Rule("Padding left", "Inner", <<"*">>, "map",
         "Spacing", "Large", "left", "padding", "", ""),
    Rule("Margin vertical", "Inner", <<"*">>, "map",
         "Spacing", "Large", "top", "", "", ""),
    Rule("Button style", "Primary", <<"*">>, "mapToWidgetProperty",
         "", "", "", "", "buttonStyle", "Primary"),
    Rule("Foo", "Bar", <<"*">>, "map", "Baz", "", "", "", "", "")
>>

\* an entry without property and value: a comment
CommentEntry == Rule("", "", <<>>, "", "", "", "", "", "", "")

\* an entry that names a property and a value but has no elementTypes array
NoTypesEntry ==
    [Rule("Foo", "Bar", <<>>, "remove", "", "", "", "", "", "") EXCEPT !.hasTypes = FALSE]

\* redirect rules: a value buttonStyleMap does not know, a rule without a
\* widgetValue, and a well-formed one
RedirectEntries == <<
    Rule("Button style", "Primary", <<"*">>, "mapToWidgetProperty",
         "", "", "", "", "buttonStyle", "Fancy"),
    Rule("Foo", "Bar", <<"*">>, "mapToWidgetProperty",
         "", "", "", "", "buttonStyle", ""),
    Rule("Justify content", "Center", <<"*">>, "mapToWidgetProperty",
         "", "", "", "", "buttonStyle", "Danger")
>>

\* spacing rules: one without a mappedValue, and a well-formed one
SpacingEntries == <<
    Rule("Margin top", "Inner", <<"*">>, "map", "Spacing", "", "top", "margin", "", ""),
    RuleCatalogue[5]
>>

\* rules with the character "|" in a property name
SeparatorEntries == <<
    Rule("Foo|Bar", "Baz", <<"*">>, "remove", "", "", "", "", "", ""),
    Rule("Foo", "Qux", <<"*">>, "map", "Quux", "On", "", "", "", "")
>>

RuleFile(ex, parse, hasM, ms) ==
    [exists |-> ex, parseable |-> parse, hasMappings |-> hasM, mappings |-> ms]

\* the contents property-mappings.json may have
RuleFiles ==
    {RuleFile(TRUE, TRUE, TRUE, ms) : ms \in SubSeqsFrom(RuleCatalogue, 1, MaxRules)}
    \cup {RuleFile(TRUE, TRUE, TRUE, <<CommentEntry, RuleCatalogue[2], RuleCatalogue[1]>>),
          RuleFile(TRUE, TRUE, TRUE, <<RuleCatalogue[1], NoTypesEntry>>),
          RuleFile(TRUE, TRUE, TRUE, RedirectEntries),
          RuleFile(TRUE, TRUE, TRUE, SpacingEntries),
          RuleFile(TRUE, TRUE, TRUE, SeparatorEntries),
          RuleFile(FALSE, FALSE, FALSE, <<>>),
          RuleFile(TRUE, FALSE, FALSE, <<>>),
          RuleFile(TRUE, TRUE, FALSE, <<>>)}

\* ------------------------------------------------------------------------
\* The model tree (widgets, documents, modules)
\* ------------------------------------------------------------------------
\* TARGET_ELEMENT_TYPES
TARGET_ELEMENT_TYPES ==
    {"DynamicText", "DivContainer", "StaticImageViewer", "ListView", "ActionButton",
     "ReferenceSelector", "DropDown", "InputReferenceSetSelector", "CheckBox",
     "com.mendix.widget.native.badge.Badge", "TextArea", "ImageViewer", "Text"}

\* the design properties a widget's list is drawn from, in list order
PropUniverse == <<
    [key |-> "Justify content", value |-> OptionValue("Center")],
    [key |-> "Render children horizontal", value |-> ToggleValue],
    [key |-> "Margin top", value |-> OptionValue("Inner")],
    [key |-> "Margin vertical", value |-> OptionValue("Inner")],
    [key |-> "Padding left", value |-> OptionValue("Inner")],
    [key |-> "Spacing", value |-> CompoundValue(<<Inner("margin-top", "Small")>>)],
    [key |-> "Button style", value |-> OptionValue("Primary")],
    [key |-> "Foo", value |-> OptionValue("Bar")]
>>

\* gives the entries of a list their identities: the position at load time
WithIds(kvs) == [i \in DOMAIN kvs |-> Prop(i, kvs[i].key, kvs[i].value)]

Reverse(s) == [i \in DOMAIN s |-> s[Len(s) + 1 - i]]

\* the lists of at most MaxProps properties of the universe, in its order or
\* in the reverse order
PropLists ==
    LET subs == SubSeqsFrom(PropUniverse, 1, MaxProps)
    IN  {WithIds(kvs) : kvs \in subs} \cup {WithIds(Reverse(kvs)) : kvs \in subs}

\* structureTypeName is kept as its parts around "$"
Widget(n, struct, props) ==
    [name |-> n, structureTypeName |-> struct, designProperties |-> props, attrs |-> {}]

\* layout: the qualified name of the layout a page calls, as its words; <<>>: none
Document(qn, lay, pprops, ws) ==
    [qualifiedName |-> qn, layout |-> lay, designProperties |-> pprops, widgets |-> ws]

Tree(mods, ps, ss, ls) ==
    [modules |-> mods, pages |-> ps, snippets |-> ss, layouts |-> ls]

JustifyCenter == WithIds(<<PropUniverse[1]>>)

SystemLogin ==
    Document("System.Login", <<>>, <<>>,
             <<Widget("loginBox", <<"Pages", "DivContainer">>, JustifyCenter)>>)

\* one snippet whose single widget has a free type and a free property list
FreeTrees ==
    {Tree(<<"System", "App">>, <<SystemLogin>>,
          <<Document("App.Snip", <<>>, <<>>, <<Widget("w1", <<"Pages", t>>, ps)>>)>>,
          <<>>) :
        t \in {"ActionButton", "ListView"}, ps \in PropLists}

\* lists in which the target of rule 1 of the catalogue is present already
AlignContentLeft == [key |-> "Align content", value |-> OptionValue("Left")]

TargetPresentLists ==
    {WithIds(<<PropUniverse[1], AlignContentLeft>>),
     WithIds(<<AlignContentLeft, PropUniverse[1]>>)}

\* one snippet whose button carries a property with the name of a target
TargetPresentTrees ==
    {Tree(<<"System", "App">>, <<SystemLogin>>,
          <<Document("App.Snip", <<>>, <<>>,
                     <<Widget("w1", <<"Pages", "ActionButton">>, ps)>>)>>,
          <<>>) :
        ps \in TargetPresentLists}

\* one snippet whose button carries a value with the character "|"
SeparatorTrees ==
    {Tree(<<"System", "App">>, <<SystemLogin>>,
          <<Document("App.Snip", <<>>, <<>>,
                     <<Widget("w1", <<"Pages", "ActionButton">>,
                              WithIds(<<[key |-> "Foo",
                                         value |-> OptionValue("Bar|Baz")]>>))>>)>>,
          <<>>)}

\* a module whose name begins with the name of another module
PrefixTrees ==
    {Tree(<<"System", "App", "AppShared">>, <<SystemLogin>>,
          <<Document("AppShared.Snip", <<>>, <<>>,
                     <<Widget("w1", <<"Pages", "ActionButton">>, JustifyCenter)>>)>>,
          <<>>)}

PageProps ==
    {<<>>,
     WithIds(<<[key |-> "Background", value |-> OptionValue("Dark")]>>),
     WithIds(<<[key |-> "Background", value |-> OptionValue("Dark")],
               [key |-> "Justify content", value |-> OptionValue("Center")]>>)}

Layouts == {<<>>, <<"Atlas", "Core", "Default">>, <<"Atlas", "Native", "Phone">>}

\* a page with page-level properties and a layout call, a layout document
PageTrees ==
    {Tree(<<"System", "App">>,
          <<SystemLogin,
            Document("App.Home", lay, pp,
                     <<Widget("box", <<"Pages", "DivContainer">>, JustifyCenter),
                       Widget("grid", <<"Pages", "LayoutGrid">>, JustifyCenter)>>)>>,
          <<>>,
          <<Document("App.Main", <<>>, <<>>,
                     <<Widget("list", <<"Pages", "ListView">>, JustifyCenter),
                       Widget("empty", <<"Pages", "Text">>, <<>>)>>)>>) :
        lay \in Layouts, pp \in PageProps}

Trees ==
    FreeTrees \cup PageTrees \cup TargetPresentTrees \cup SeparatorTrees \cup PrefixTrees

\* the model before the working copy is opened
NoModel == Tree(<<>>, <<>>, <<>>, <<>>)

\* ------------------------------------------------------------------------
\* Rule catalogue: loadMappings
\* ------------------------------------------------------------------------
\* `${property}|${value}|${elementType}`
LookupKey(property, value, elementType) ==
    property \o "|" \o value \o "|" \o elementType

\* Map.set(key, mapping) on a map kept as a function
MapSet(lookup, key, mapping) ==
    [k \in DOMAIN lookup \cup {key} |-> IF k = key THEN mapping ELSE lookup[k]]

\* Map.get(key)
MapGet(lookup, key) == IF key \in DOMAIN lookup THEN lookup[key] ELSE undefined

\* the filter that drops comment-only entries
FilterComments(mappings) ==
    SelectSeq(mappings, LAMBDA m : m.property # "" /\ m.value # "")

RECURSIVE SetKeys(_, _, _, _)
\* the inner loop over mapping.elementTypes, from index j
SetKeys(lookup, mapping, types, j) ==
    IF j > Len(types) THEN lookup
    ELSE SetKeys(MapSet(lookup, LookupKey(mapping.property, mapping.value, types[j]),
                        mapping),
                 mapping, types, j + 1)

RECURSIVE BuildLookup(_, _, _, _)
\* the loop that builds MAPPED_PROPERTY_NAMES and MAPPINGS_LOOKUP, from index i;
\* iterating elementTypes of an entry that has none throws
BuildLookup(data, i, names, lookup) ==
    IF i > Len(data) THEN [ok |-> TRUE, names |-> names, lookup |-> lookup]
    ELSE IF ~data[i].hasTypes
         THEN [ok |-> FALSE, names |-> names \cup {data[i].property}, lookup |-> lookup]
         ELSE BuildLookup(data, i + 1, names \cup {data[i].property},
                          SetKeys(lookup, data[i], data[i].elementTypes, 1))

\* loadMappings on the rule source `file`: what it returns and the globals it leaves
LoadResult(file) ==
    IF ~file.exists \/ ~file.parseable \/ ~file.hasMappings
    THEN [ok |-> FALSE, data |-> <<>>, names |-> {}, lookup |-> <<>>]
    ELSE LET data == FilterComments(file.mappings)
             built == BuildLookup(data, 1, {}, <<>>)
         IN  [ok |-> built.ok, data |-> data, names |-> built.names,
              lookup |-> built.lookup]

\* ------------------------------------------------------------------------
\* State
\* ------------------------------------------------------------------------
VARIABLES
    pc,                     \* where main is
    MENDIX_TOKEN,           \* process.env.MENDIX_TOKEN || ""
    APP_ID,                 \* process.env.MENDIX_APP_ID || ""
    MAPPINGS_DATA,          \* the filtered rule entries
    MAPPINGS_LOOKUP,        \* "property|value|elementType" -> mapping
    MAPPED_PROPERTY_NAMES,  \* the property names that have a mapping
    source,                 \* history: the rule source loadMappings read
    model,                  \* the in-memory model of the working copy
    opened,                 \* the model as the working copy delivered it
    totals,                 \* main's totals
    csvData,                \* the audit rows
    modIdx,                 \* index of the module main's loop is at
    coll,                   \* 1 pages, 2 snippets, 3 layouts of that module
    collResults,            \* pagesResult, snippetsResult, layoutsResult
    documents,              \* the documents of the collection being processed
    docIdx,                 \* index in documents
    result,                 \* processDocumentCollection's result
    widIdx,                 \* index of the widget the traversal is at
    wp,                     \* processWidget's locals
    last,                   \* history: the last widget processWidget changed
    shouldCommit,           \* the operator's answer
    flushCalls,             \* calls of model.flushChanges()
    commits,                \* what commitToRepository received
    report                  \* the rows writeExcelReport wrote

vars == <<pc, MENDIX_TOKEN, APP_ID, MAPPINGS_DATA, MAPPINGS_LOOKUP,
          MAPPED_PROPERTY_NAMES, source, last, model, opened, last, totals, csvData, modIdx, coll,
          collResults, documents, docIdx, result, widIdx, wp, shouldCommit,
          flushCalls, commits, report>>

\* ------------------------------------------------------------------------
\* Rule resolver: findMapping
\* ------------------------------------------------------------------------
FindMappingWildcardFirst(property, value, elementType) ==
    LET mapping == MapGet(MAPPINGS_LOOKUP, LookupKey(property, value, "*"))
    IN  IF mapping # undefined THEN mapping
        ELSE MapGet(MAPPINGS_LOOKUP, LookupKey(property, value, elementType))

findMapping(property, value, elementType) ==
    LET mapping == MapGet(MAPPINGS_LOOKUP, LookupKey(property, value, elementType))
    IN  IF mapping # undefined THEN mapping
        ELSE MapGet(MAPPINGS_LOOKUP, LookupKey(property, value, "*"))

\* ------------------------------------------------------------------------
\* Helper functions of the element processor
\* ------------------------------------------------------------------------
getWidgetTypeName(widget) ==
    IF Len(widget.structureTypeName) > 1 THEN widget.structureTypeName[2]
    ELSE widget.structureTypeName[1]

extractPropertyValue(prop) ==
    CASE prop.value.tag = "Undefined" -> ""
      [] prop.value.tag = "Option" -> prop.value.option
      [] prop.value.tag = "Compound" -> "[Compound]"
      [] prop.value.tag = "Toggle" -> "true"
      [] OTHER -> prop.value.option

Sides == {"top", "right", "bottom", "left"}
Kinds == {"margin", "padding"}

\* the order in which addInnerProp writes the slots
SlotOrder == <<
    <<"margin", "top">>, <<"margin", "right">>, <<"margin", "bottom">>,
    <<"margin", "left">>, <<"padding", "top">>, <<"padding", "right">>,
    <<"padding", "bottom">>, <<"padding", "left">>
>>

SlotKey(slot) == slot[1] \o "-" \o slot[2]

\* the state with every slot "None"
NoneState == [slot \in Range(SlotOrder) |-> "None"]

\* key.split("-") has two parts, a kind and a side, exactly when the key is
\* kind-side: neither a kind nor a side contains "-"
SlotsOfKey(key) == {slot \in Range(SlotOrder) : key = SlotKey(slot)}

RECURSIVE ParseEntries(_, _, _)
\* the loop over val.properties, from index i
ParseEntries(entries, i, state) ==
    IF i > Len(entries) THEN state
    ELSE LET e == entries[i]
             option == IF e.value.tag = "Option" THEN e.value.option ELSE ""
         IN  IF e.key = "" \/ e.value.tag = "Undefined" \/ option = ""
                \/ SlotsOfKey(e.key) = {}
             THEN ParseEntries(entries, i + 1, state)
             ELSE ParseEntries(entries, i + 1,
                      [state EXCEPT ![CHOOSE slot \in SlotsOfKey(e.key) : TRUE] = option])

\* parseSpacingState: [ok |-> FALSE] is the undefined it returns
parseSpacingState(prop) ==
    IF prop.value.tag = "Compound"
    THEN [ok |-> TRUE, state |-> ParseEntries(prop.value.properties, 1, NoneState)]
    ELSE [ok |-> FALSE, state |-> NoneState]

\* ------------------------------------------------------------------------
\* Element processor: processWidget
\* ------------------------------------------------------------------------
ZeroResult ==
    [widgets |-> 0, props |-> 0, mapped |-> 0, removed |-> 0,
     widgetPropsMapped |-> 0, skipped |-> 0, skippedNativeLayouts |-> 0]

\* a CsvDataRow; prop is the identity of the source property, which the
\* exported row does not carry
Row(el, elType, doc, mod, prop, val, act, mProp, mVal, why) ==
    [element |-> el, elementType |-> elType, document |-> doc, module |-> mod,
     prop |-> prop.id, property |-> prop.key, value |-> val, action |-> act,
     mappedProperty |-> mProp, mappedValue |-> mVal, reason |-> why]

NoWidget == Widget("", <<"">>, <<>>)

\* processWidget's locals before the first pass over the list
NoLocals ==
    [widgetName |-> "", widgetType |-> "", docName |-> "", moduleName |-> "",
     result |-> ZeroResult, toModify |-> <<>>, toRemove |-> <<>>,
     toSetWidgetProp |-> <<>>, skippedProps |-> <<>>,
     mappedTargetProperties |-> {}, spacingPropertiesToMap |-> <<>>,
     existingSpacingProp |-> 0, rows |-> <<>>, before |-> NoWidget]

\* history of processWidget: the widget as found, as left, and the locals
NoLast == [before |-> NoWidget, after |-> NoWidget, l |-> NoLocals]

\* propertiesList.find(p => p.key === "Spacing"): its id, 0 when there is none
FindSpacing(list) ==
    LET hits == {i \in DOMAIN list : list[i].key = "Spacing"}
    IN  IF hits = {} THEN 0
        ELSE list[CHOOSE i \in hits : \A j \in hits : i <= j].id

CollisionReason(targetProp) ==
    "Duplicate target '" \o targetProp \o "' - collision with prioritized mapping"

\* the "remove" branch of the first pass
QueueRemove(l, prop, propValue, why) ==
    [l EXCEPT !.toRemove = Append(@, prop.id),
              !.result.removed = @ + 1,
              !.rows = Append(@, Row(l.widgetName, l.widgetType, l.docName,
                                     l.moduleName, prop, propValue, "removed",
                                     "", "", why))]

\* the non-spacing "map" branch when the target is not claimed yet: claim it,
\* queue the rewrite, record mapped
QueueRewrite(l, prop, propValue, mapping) ==
    [l EXCEPT !.mappedTargetProperties = @ \cup ({mapping.mappedProperty} \ {""}),
              !.toModify = Append(@, [prop |-> prop.id, mapping |-> mapping]),
              !.result.mapped = @ + 1,
              !.rows = Append(@, Row(l.widgetName, l.widgetType, l.docName,
                                     l.moduleName, prop, propValue, "mapped",
                                     mapping.mappedProperty, mapping.mappedValue, ""))]

\* as QueueModify, without the check for a target that is claimed already
QueueModifyNoCollisionCheck(l, prop, propValue, mapping) ==
    QueueRewrite(l, prop, propValue, mapping)

\* the non-spacing "map" branch: a later claimant of a target is removed
QueueModify(l, prop, propValue, mapping) ==
    IF mapping.mappedProperty # ""
       /\ mapping.mappedProperty \in l.mappedTargetProperties
    THEN QueueRemove(l, prop, propValue, CollisionReason(mapping.mappedProperty))
    ELSE QueueRewrite(l, prop, propValue, mapping)

\* the spacing "map" branch: collect for aggregation
QueueSpacing(l, prop, mapping) ==
    [l EXCEPT !.spacingPropertiesToMap =
        Append(@, [prop |-> prop.id, mapping |-> mapping,
                   direction |-> mapping.mappedDirection,
                   spacingType |-> IF mapping.mappedType = "padding"
                                   THEN "padding" ELSE "margin"])]

\* the "mapToWidgetProperty" branch
QueueWidgetProp(l, prop, propValue, mapping) ==
    [l EXCEPT !.toSetWidgetProp = Append(@, [prop |-> prop.id, mapping |-> mapping]),
              !.result.widgetPropsMapped = @ + 1,
              !.rows = Append(@, Row(l.widgetName, l.widgetType, l.docName,
                                     l.moduleName, prop, propValue,
                                     "widgetPropertySet", mapping.widgetProperty,
                                     mapping.widgetValue, "Mapped to widget property"))]

\* the branch for a property that has no mapping
QueueSkipped(l, prop, propValue) ==
    [l EXCEPT !.skippedProps =
                  Append(@, [prop |-> prop.key, value |-> propValue,
                             reason |-> "No mapping defined for this property/value/element combination"]),
              !.result.skipped = @ + 1]

\* one iteration of the first pass
AnalyzeProp(l, prop) ==
    LET propValue == extractPropertyValue(prop)
        mapping == findMapping(prop.key, propValue, l.widgetType)
        counted == [l EXCEPT !.result.props = @ + 1]
    IN  IF prop.key = "" \/ prop.key \notin MAPPED_PROPERTY_NAMES \/ propValue = ""
        THEN l
        ELSE IF mapping = undefined THEN QueueSkipped(counted, prop, propValue)
        ELSE CASE mapping.action = "remove" ->
                    QueueRemove(counted, prop, propValue, "No Web equivalent")
               [] mapping.action = "map" ->
                    IF mapping.mappedProperty = "Spacing" /\ mapping.mappedDirection # ""
                    THEN QueueSpacing(counted, prop, mapping)
                    ELSE QueueModify(counted, prop, propValue, mapping)
               [] mapping.action = "mapToWidgetProperty" ->
                    QueueWidgetProp(counted, prop, propValue, mapping)
               [] OTHER -> counted

RECURSIVE AnalyzeFrom(_, _, _)
\* the first pass over propertiesList, from index i
AnalyzeFrom(l, list, i) ==
    IF i > Len(list) THEN l
    ELSE AnalyzeFrom(AnalyzeProp(l, list[i]), list, i + 1)

\* ------------------------------------------------------------------------
\* Spacing aggregator (the spacing block of processWidget)
\* ------------------------------------------------------------------------
\* the property of `list` with identity id; a detached one reads as undefined
PropById(list, id) ==
    LET hits == {i \in DOMAIN list : list[i].id = id}
    IN  IF hits = {} THEN Prop(id, "", UndefinedValue)
        ELSE list[CHOOSE i \in hits : TRUE]

\* the state the aggregation starts from: the parsed existing Spacing, if any
BaseState(list, existingSpacingProp) ==
    IF existingSpacingProp = 0 THEN NoneState
    ELSE LET parsed == parseSpacingState(PropById(list, existingSpacingProp))
         IN  IF parsed.ok THEN parsed.state ELSE NoneState

\* the value a contribution writes: mappedValue || "None"
ContributionValue(item) ==
    IF item.mapping.mappedValue = "" THEN "None" ELSE item.mapping.mappedValue

RECURSIVE Overwrite(_, _, _)
\* the loop "Overwrite with mapped Native values", from index i
Overwrite(state, items, i) ==
    IF i > Len(items) THEN state
    ELSE LET slot == <<items[i].spacingType, items[i].direction>>
         IN  Overwrite(IF slot \in DOMAIN state
                       THEN [state EXCEPT ![slot] = ContributionValue(items[i])]
                       ELSE state,
                       items, i + 1)

\* as MergedState, starting from the empty state whatever Spacing exists
MergedStateDropExisting(list, existingSpacingProp, items) ==
    Overwrite(NoneState, items, 1)

\* the merged state: existing Spacing overwritten by the contributions
MergedState(list, existingSpacingProp, items) ==
    Overwrite(BaseState(list, existingSpacingProp), items, 1)

RECURSIVE AddInnerPropsOfEverySlot(_, _)
\* as AddInnerProps, without the return for "None"
AddInnerPropsOfEverySlot(state, i) ==
    IF i > Len(SlotOrder) THEN <<>>
    ELSE <<Inner(SlotKey(SlotOrder[i]), state[SlotOrder[i]])>>
         \o AddInnerPropsOfEverySlot(state, i + 1)

RECURSIVE AddInnerProps(_, _)
\* the eight addInnerProp calls, from slot i: "None" slots are not written
AddInnerProps(state, i) ==
    IF i > Len(SlotOrder) THEN <<>>
    ELSE (IF state[SlotOrder[i]] = "None" THEN <<>>
          ELSE <<Inner(SlotKey(SlotOrder[i]), state[SlotOrder[i]])>>)
         \o AddInnerProps(state, i + 1)

\* a fresh object identity in `list`
FreshId(list) ==
    1 + (LET ids == {list[i].id : i \in DOMAIN list}
         IN  IF ids = {} THEN 0 ELSE CHOOSE m \in ids : \A n \in ids : n <= m)

\* as WithNewSpacing, but an existing Spacing property gets the merged value
\* in place and no property is created
WithSpacingEditedInPlace(list, existingSpacingProp, items) ==
    LET merged == CompoundValue(AddInnerProps(
                      MergedState(list, existingSpacingProp, items), 1))
    IN  IF existingSpacingProp = 0
        THEN Append(list, Prop(FreshId(list), "Spacing", merged))
        ELSE [k \in DOMAIN list |->
                 IF list[k].id = existingSpacingProp
                 THEN [list[k] EXCEPT !.value = merged] ELSE list[k]]

\* createInAppearanceUnderDesignProperties plus the compound value: the list
\* with the new Spacing property appended
WithNewSpacing(list, existingSpacingProp, items) ==
    Append(list,
           Prop(FreshId(list), "Spacing",
                CompoundValue(AddInnerProps(
                    MergedState(list, existingSpacingProp, items), 1))))

\* propertiesList.remove(prop), guarded by indexOf(prop) >= 0
RemoveProp(list, id) == SelectSeq(list, LAMBDA p : p.id # id)

RECURSIVE SpacingRows(_, _, _, _)
\* the audit rows of the contributions, from index i
SpacingRows(l, list, items, i) ==
    IF i > Len(items) THEN <<>>
    ELSE LET prop == PropById(list, items[i].prop)
         IN  <<Row(l.widgetName, l.widgetType, l.docName, l.moduleName, prop,
                   extractPropertyValue(prop), "mapped", "Spacing",
                   items[i].spacingType \o "." \o items[i].direction \o "="
                   \o items[i].mapping.mappedValue, "")>>
             \o SpacingRows(l, list, items, i + 1)

\* ------------------------------------------------------------------------
\* Execution of the queued changes (the end of processWidget)
\* ------------------------------------------------------------------------
\* applyMapping: new key and a new option value; nothing without both
applyMapping(prop, mapping) ==
    IF mapping.mappedProperty = "" \/ mapping.mappedValue = "" THEN prop
    ELSE [prop EXCEPT !.key = mapping.mappedProperty,
                      !.value = OptionValue(mapping.mappedValue)]

RECURSIVE ExecuteModifications(_, _, _)
\* the loop over toModify, from index i
ExecuteModifications(list, toModify, i) ==
    IF i > Len(toModify) THEN list
    ELSE ExecuteModifications(
             [k \in DOMAIN list |->
                 IF list[k].id = toModify[i].prop
                 THEN applyMapping(list[k], toModify[i].mapping) ELSE list[k]],
             toModify, i + 1)

\* as AllPropsToRemove, without the merged spacing properties
AllPropsToRemoveQueuedOnly(toRemove, spacingPropertiesToMap) == toRemove

\* allPropsToRemove: toRemove and the merged spacing properties
AllPropsToRemove(toRemove, spacingPropertiesToMap) ==
    toRemove \o
    SelectSeq([i \in DOMAIN spacingPropertiesToMap |-> spacingPropertiesToMap[i].prop],
              LAMBDA id : id \notin Range(toRemove))

RECURSIVE ExecuteRemovals(_, _, _)
\* the loop over allPropsToRemove, from index i
ExecuteRemovals(list, ids, i) ==
    IF i > Len(ids) THEN list
    ELSE ExecuteRemovals(RemoveProp(list, ids[i]), ids, i + 1)

\* the values of pages.ButtonStyle that buttonStyleMap knows
ButtonStyles ==
    {"Default", "Inverse", "Primary", "Info", "Success", "Warning", "Danger"}

\* widget instanceof pages.ActionButton
IsActionButton(widget) == widget.structureTypeName = <<"Pages", "ActionButton">>

SetAttr(attrs, name, value) == {a \in attrs : a[1] # name} \cup {<<name, value>>}

\* applyWidgetPropertyMapping: whether it throws, and the widget it leaves
applyWidgetPropertyMapping(widget, mapping) ==
    IF mapping.widgetProperty = "" \/ mapping.widgetValue = ""
    THEN [threw |-> TRUE, widget |-> widget]
    ELSE IF mapping.widgetProperty = "buttonStyle" /\ IsActionButton(widget)
         THEN IF mapping.widgetValue \in ButtonStyles
              THEN [threw |-> FALSE,
                    widget |-> [widget EXCEPT !.attrs =
                                   SetAttr(@, "buttonStyle", mapping.widgetValue)]]
              ELSE [threw |-> TRUE, widget |-> widget]
         ELSE [threw |-> FALSE,
               widget |-> [widget EXCEPT !.attrs =
                              SetAttr(@, mapping.widgetProperty, mapping.widgetValue)]]

RECURSIVE ExecuteWidgetProps(_, _, _)
\* the loop over toSetWidgetProp, from index i: set, then remove the source
ExecuteWidgetProps(widget, items, i) ==
    IF i > Len(items) THEN widget
    ELSE LET set == applyWidgetPropertyMapping(widget, items[i].mapping)
         IN  ExecuteWidgetProps(
                 IF set.threw THEN widget
                 ELSE [set.widget EXCEPT !.designProperties = RemoveProp(@, items[i].prop)],
                 items, i + 1)

\* the widget after "Execute modifications", removals and widget properties
Execute(widget, l) ==
    ExecuteWidgetProps(
        [widget EXCEPT !.designProperties =
            ExecuteRemovals(
                ExecuteModifications(widget.designProperties, l.toModify, 1),
                AllPropsToRemove(l.toRemove, l.spacingPropertiesToMap), 1)],
        l.toSetWidgetProp, 1)

\* ------------------------------------------------------------------------
\* Document walker: processDocumentCollection and the module loop of main
\* ------------------------------------------------------------------------
\* model.allPages(), model.allSnippets(), model.allLayouts()
AllDocs(m, c) ==
    CASE c = 1 -> m.pages
      [] c = 2 -> m.snippets
      [] OTHER -> m.layouts

WithDocs(m, c, docs) ==
    CASE c = 1 -> [m EXCEPT !.pages = docs]
      [] c = 2 -> [m EXCEPT !.snippets = docs]
      [] OTHER -> [m EXCEPT !.layouts = docs]

\* qualifiedName.startsWith(moduleName)
StartsWith(qualifiedName, moduleName) ==
    /\ Len(moduleName) <= Len(qualifiedName)
    /\ SubSeq(qualifiedName, 1, Len(moduleName)) = moduleName

\* the filter on qualifiedName: the positions of the documents it keeps
DocumentsOf(m, c, moduleName) ==
    LET docs == AllDocs(m, c)
    IN  SelectSeq([i \in DOMAIN docs |-> i],
                  LAMBDA i : StartsWith(docs[i].qualifiedName, moduleName))

\* toLowerCase on the words of a layout name
Lower(word) ==
    CASE word = "Atlas" -> "atlas"
      [] word = "Native" -> "native"
      [] word = "Core" -> "core"
      [] word = "Default" -> "default"
      [] word = "Phone" -> "phone"
      [] OTHER -> word

\* as IsNativeLayout, without toLowerCase
IsNativeLayoutCaseSensitive(doc) == \E i \in DOMAIN doc.layout : doc.layout[i] = "native"

\* layoutName.includes("native") on the lowercased name of the layout called
IsNativeLayout(doc) == \E i \in DOMAIN doc.layout : Lower(doc.layout[i]) = "native"

PageReason == "Pages do not support design properties in Web profile"

\* as PageRows, but only for the properties whose name some rule covers
PageRowsOfMappedNames(doc, moduleName) ==
    LET covered == SelectSeq(doc.designProperties,
                             LAMBDA p : p.key \in MAPPED_PROPERTY_NAMES)
    IN  [i \in DOMAIN covered |->
            Row(doc.qualifiedName, "Page", doc.qualifiedName, moduleName,
                covered[i], extractPropertyValue(covered[i]),
                "removed", "", "", PageReason)]

\* the audit rows of a page's own design properties
PageRows(doc, moduleName) ==
    [i \in DOMAIN doc.designProperties |->
        Row(doc.qualifiedName, "Page", doc.qualifiedName, moduleName,
            doc.designProperties[i], extractPropertyValue(doc.designProperties[i]),
            "removed", "", "", PageReason)]

\* what the traversal callback adds to result for one widget
AggregateWidget(res, widgetResult) ==
    IF widgetResult.props > 0
    THEN [res EXCEPT !.widgets = @ + 1,
                     !.props = @ + widgetResult.props,
                     !.mapped = @ + widgetResult.mapped,
                     !.removed = @ + widgetResult.removed,
                     !.skipped = @ + widgetResult.skipped]
    ELSE res

\* "Aggregate stats" of main for one module
AggregateModule(t, rs) ==
    [widgets |-> t.widgets + rs[1].widgets + rs[2].widgets + rs[3].widgets,
     props |-> t.props + rs[1].props + rs[2].props + rs[3].props,
     mapped |-> t.mapped + rs[1].mapped + rs[2].mapped + rs[3].mapped,
     removed |-> t.removed + rs[1].removed + rs[2].removed + rs[3].removed,
     widgetPropsMapped |-> t.widgetPropsMapped + rs[1].widgetPropsMapped
                           + rs[2].widgetPropsMapped + rs[3].widgetPropsMapped,
     skipped |-> t.skipped + rs[1].skipped + rs[2].skipped + rs[3].skipped,
     skippedNativeLayouts |-> t.skippedNativeLayouts + rs[1].skippedNativeLayouts]

TotalModified(t) == t.mapped + t.removed + t.widgetPropsMapped

\* the document and the widget the walker is at
CurDoc == AllDocs(model, coll)[documents[docIdx]]
CurWidget == CurDoc.widgets[widIdx]

\* the model with the current widget replaced by w
WithCurWidget(w) ==
    WithDocs(model, coll,
             [AllDocs(model, coll) EXCEPT ![documents[docIdx]].widgets[widIdx] = w])

\* ------------------------------------------------------------------------
\* Initial state
\* ------------------------------------------------------------------------
Init ==
    /\ pc = "start"
    /\ MENDIX_TOKEN \in {"", "pat"}
    /\ APP_ID \in {"", "app-1"}
    /\ MAPPINGS_DATA = <<>>
    /\ MAPPINGS_LOOKUP = <<>>
    /\ MAPPED_PROPERTY_NAMES = {}
    /\ source = RuleFile(FALSE, FALSE, FALSE, <<>>)
    /\ last = NoLast
    /\ model = NoModel
    /\ opened = NoModel
    /\ totals = ZeroResult
    /\ csvData = <<>>
    /\ modIdx = 1
    /\ coll = 1
    /\ collResults = <<ZeroResult, ZeroResult, ZeroResult>>
    /\ documents = <<>>
    /\ docIdx = 1
    /\ result = ZeroResult
    /\ widIdx = 1
    /\ wp = NoLocals
    /\ shouldCommit = "unasked"
    /\ flushCalls = 0
    /\ commits = <<>>
    /\ report = <<>>

catalogueVars == <<MAPPINGS_DATA, MAPPINGS_LOOKUP, MAPPED_PROPERTY_NAMES, source>>
envVars == <<MENDIX_TOKEN, APP_ID>>
backendVars == <<shouldCommit, flushCalls, commits>>
walkVars == <<modIdx, coll, collResults, documents, docIdx, result, widIdx>>

\* ------------------------------------------------------------------------
\* main: start-up
\* ------------------------------------------------------------------------
\* loadMappings(); process.exit(1) when it returns false
LoadMappings ==
    /\ pc = "start"
    /\ \E file \in RuleFiles :
         LET loaded == LoadResult(file)
         IN  /\ source' = file
             /\ MAPPINGS_DATA' = loaded.data
             /\ MAPPED_PROPERTY_NAMES' = loaded.names
             /\ MAPPINGS_LOOKUP' = loaded.lookup
             /\ pc' = IF loaded.ok THEN "config" ELSE "exit"
    /\ UNCHANGED <<envVars, model, opened, last, totals, csvData, walkVars, wp,
                   backendVars, report>>

\* as CheckConfig, but only the token is required
CheckConfigTokenOnly ==
    /\ pc = "config"
    /\ pc' = IF MENDIX_TOKEN = "" THEN "returned" ELSE "open"
    /\ UNCHANGED <<envVars, catalogueVars, model, opened, last, totals, csvData,
                   walkVars, wp, backendVars, report>>

\* the check of MENDIX_TOKEN and APP_ID
CheckConfig ==
    /\ pc = "config"
    /\ pc' = IF MENDIX_TOKEN = "" \/ APP_ID = "" THEN "returned" ELSE "open"
    /\ UNCHANGED <<envVars, catalogueVars, model, opened, last, totals, csvData,
                   walkVars, wp, backendVars, report>>

\* createTemporaryWorkingCopy and openModel deliver the model
OpenModel ==
    /\ pc = "open"
    /\ \E tree \in Trees : model' = tree /\ opened' = tree
    /\ pc' = "modules"
    /\ UNCHANGED <<envVars, catalogueVars, last, totals, csvData, walkVars, wp,
                   backendVars, report>>

\* createTemporaryWorkingCopy or openModel throws: main's catch
OpenModelFails ==
    /\ pc = "open"
    /\ pc' = "failed"
    /\ UNCHANGED <<envVars, catalogueVars, model, opened, last, totals, csvData,
                   walkVars, wp, backendVars, report>>

\* ------------------------------------------------------------------------
\* main: the loop over the modules and their three collections
\* ------------------------------------------------------------------------
NextModule ==
    /\ pc = "modules"
    /\ IF modIdx > Len(model.modules)
       THEN /\ pc' = "report"
            /\ UNCHANGED walkVars
       ELSE IF model.modules[modIdx] = "System"
       THEN /\ modIdx' = modIdx + 1
            /\ pc' = "modules"
            /\ UNCHANGED <<coll, collResults, documents, docIdx, result, widIdx>>
       ELSE /\ coll' = 1
            /\ documents' = DocumentsOf(model, 1, model.modules[modIdx])
            /\ docIdx' = 1
            /\ result' = ZeroResult
            /\ pc' = "docs"
            /\ UNCHANGED <<modIdx, collResults, widIdx>>
    /\ UNCHANGED <<envVars, catalogueVars, model, opened, last, totals, csvData, wp,
                   backendVars, report>>

\* processDocumentCollection returns; the next collection starts, or the
\* module's results are added to totals
EndCollection ==
    /\ pc = "docs"
    /\ docIdx > Len(documents)
    /\ collResults' = [collResults EXCEPT ![coll] = result]
    /\ IF coll < 3
       THEN /\ coll' = coll + 1
            /\ documents' = DocumentsOf(model, coll + 1, model.modules[modIdx])
            /\ docIdx' = 1
            /\ result' = ZeroResult
            /\ pc' = "docs"
            /\ UNCHANGED <<modIdx, totals>>
       ELSE /\ totals' = AggregateModule(totals, collResults')
            /\ modIdx' = modIdx + 1
            /\ pc' = "modules"
            /\ UNCHANGED <<coll, documents, docIdx, result>>
    /\ UNCHANGED <<envVars, catalogueVars, model, opened, last, csvData, widIdx, wp,
                   backendVars, report>>

\* docInfo.load(), the native-layout skip and the removal of a page's own
\* design properties
LoadDocument ==
    /\ pc = "docs"
    /\ docIdx <= Len(documents)
    /\ LET doc == CurDoc
           moduleName == model.modules[modIdx]
           n == Len(doc.designProperties)
       IN  IF coll = 1 /\ doc.layout # <<>> /\ IsNativeLayout(doc)
           THEN /\ result' = [result EXCEPT !.skippedNativeLayouts = @ + 1]
                /\ docIdx' = docIdx + 1
                /\ pc' = "docs"
                /\ UNCHANGED <<model, csvData, widIdx>>
           ELSE IF coll = 1 /\ n > 0
           THEN /\ csvData' = csvData \o PageRows(doc, moduleName)
                /\ model' = WithDocs(model, coll,
                                [AllDocs(model, coll) EXCEPT
                                    ![documents[docIdx]].designProperties = <<>>])
                /\ result' = [result EXCEPT !.props = @ + n, !.removed = @ + n]
                /\ widIdx' = 1
                /\ pc' = "traverse"
                /\ UNCHANGED docIdx
           ELSE /\ widIdx' = 1
                /\ pc' = "traverse"
                /\ UNCHANGED <<model, csvData, result, docIdx>>
    /\ UNCHANGED <<envVars, catalogueVars, opened, last, totals, modIdx, coll,
                   collResults, documents, wp, backendVars, report>>

\* as LoadDocumentFails, but the failure is not caught in the loop and
\* reaches main's catch
LoadDocumentFailsEndsRun ==
    /\ pc = "docs"
    /\ docIdx <= Len(documents)
    /\ pc' = "failed"
    /\ UNCHANGED <<envVars, catalogueVars, model, opened, last, totals, csvData,
                   walkVars, wp, backendVars, report>>

\* docInfo.load() throws: the outer catch, then the next document
LoadDocumentFails ==
    /\ pc = "docs"
    /\ docIdx <= Len(documents)
    /\ docIdx' = docIdx + 1
    /\ UNCHANGED <<pc, envVars, catalogueVars, model, opened, last, totals, csvData,
                   modIdx, coll, collResults, documents, result, widIdx, wp,
                   backendVars, report>>

\* the traversal has visited every widget of the document
EndTraverse ==
    /\ pc = "traverse"
    /\ widIdx > Len(CurDoc.widgets)
    /\ docIdx' = docIdx + 1
    /\ pc' = "docs"
    /\ UNCHANGED <<envVars, catalogueVars, model, opened, last, totals, csvData,
                   modIdx, coll, collResults, documents, result, widIdx, wp,
                   backendVars, report>>

\* ------------------------------------------------------------------------
\* processWidget, in the order of its blocks
\* ------------------------------------------------------------------------
SpacingAlways(l) == TRUE

\* if (spacingPropertiesToMap.length > 0): whether the spacing block runs
SpacingNeeded(l) == Len(l.spacingPropertiesToMap) > 0

\* the early returns and the first pass over the property list
AnalyzeWidget ==
    /\ pc = "traverse"
    /\ widIdx <= Len(CurDoc.widgets)
    /\ LET widget == CurWidget
           widgetType == getWidgetTypeName(widget)
           list == widget.designProperties
           start == [NoLocals EXCEPT !.widgetName = widget.name,
                                     !.widgetType = widgetType,
                                     !.docName = CurDoc.qualifiedName,
                                     !.moduleName = model.modules[modIdx],
                                     !.existingSpacingProp = FindSpacing(list),
                                     !.before = widget]
           l == AnalyzeFrom(start, list, 1)
       IN  IF Len(list) = 0 \/ widgetType \notin TARGET_ELEMENT_TYPES
           THEN /\ widIdx' = widIdx + 1
                /\ pc' = "traverse"
                /\ UNCHANGED <<wp, csvData>>
           ELSE /\ wp' = [l EXCEPT !.rows = <<>>]
                /\ csvData' = csvData \o l.rows
                /\ pc' = IF SpacingNeeded(l) THEN "spacing" ELSE "execute"
                /\ UNCHANGED widIdx
    /\ UNCHANGED <<envVars, catalogueVars, model, opened, last, totals, modIdx, coll,
                   collResults, documents, docIdx, result, backendVars, report>>

\* the merged state and the new Spacing property, created in the list
BuildSpacing ==
    /\ pc = "spacing"
    /\ model' = WithCurWidget(
                    [CurWidget EXCEPT !.designProperties =
                        WithNewSpacing(@, wp.existingSpacingProp,
                                       wp.spacingPropertiesToMap)])
    /\ pc' = "spacing2"
    /\ UNCHANGED <<envVars, catalogueVars, opened, last, totals, csvData, walkVars, wp,
                   backendVars, report>>

\* the existing Spacing property is removed; the contributions are counted
\* and recorded as mapped
FinishSpacing ==
    /\ pc = "spacing2"
    /\ model' = IF wp.existingSpacingProp # 0
                THEN WithCurWidget(
                         [CurWidget EXCEPT !.designProperties =
                             RemoveProp(@, wp.existingSpacingProp)])
                ELSE model
    /\ wp' = [wp EXCEPT !.result.mapped = @ + Len(wp.spacingPropertiesToMap)]
    /\ csvData' = csvData \o SpacingRows(wp, CurWidget.designProperties,
                                         wp.spacingPropertiesToMap, 1)
    /\ pc' = "execute"
    /\ UNCHANGED <<envVars, catalogueVars, opened, last, totals, walkVars,
                   backendVars, report>>

\* "Execute modifications", removals and widget property changes; the
\* widget's result is added to the collection's result
ExecuteWidget ==
    /\ pc = "execute"
    /\ model' = WithCurWidget(Execute(CurWidget, wp))
    /\ result' = AggregateWidget(result, wp.result)
    /\ wp' = NoLocals
    /\ last' = [before |-> wp.before, after |-> Execute(CurWidget, wp), l |-> wp]
    /\ widIdx' = widIdx + 1
    /\ pc' = "traverse"
    /\ UNCHANGED <<envVars, catalogueVars, opened, totals, csvData, modIdx, coll,
                   collResults, documents, docIdx, backendVars, report>>

\* ------------------------------------------------------------------------
\* main: report, confirmation, flush and commit
\* ------------------------------------------------------------------------
\* as Report, but the changes are flushed without asking the operator
ReportWithoutAsking ==
    /\ pc = "report"
    /\ report' = IF Len(csvData) > 0 THEN csvData ELSE report
    /\ pc' = IF TotalModified(totals) > 0 THEN "flush" ELSE "unmodified"
    /\ UNCHANGED <<envVars, catalogueVars, model, opened, last, totals, csvData,
                   walkVars, wp, backendVars>>

\* the Excel report and the summary; the commit summary when something was
\* modified
Report ==
    /\ pc = "report"
    /\ report' = IF Len(csvData) > 0 THEN csvData ELSE report
    /\ pc' = IF TotalModified(totals) > 0 THEN "confirm" ELSE "unmodified"
    /\ UNCHANGED <<envVars, catalogueVars, model, opened, last, totals, csvData,
                   walkVars, wp, backendVars>>

\* as Confirm, but the answer does not decide what follows
ConfirmIgnoresAnswer ==
    /\ pc = "confirm"
    /\ \E answer \in {"yes", "no"} : shouldCommit' = answer
    /\ pc' = "flush"
    /\ UNCHANGED <<envVars, catalogueVars, model, opened, last, totals, csvData,
                   walkVars, wp, flushCalls, commits, report>>

\* askConfirmation: the operator answers
Confirm ==
    /\ pc = "confirm"
    /\ \E answer \in {"yes", "no"} :
         /\ shouldCommit' = answer
         /\ pc' = IF answer = "yes" THEN "flush" ELSE "cancelled"
    /\ UNCHANGED <<envVars, catalogueVars, model, opened, last, totals, csvData,
                   walkVars, wp, flushCalls, commits, report>>

\* model.flushChanges()
FlushChanges ==
    /\ pc = "flush"
    /\ flushCalls' = flushCalls + 1
    /\ pc' = "commit"
    /\ UNCHANGED <<envVars, catalogueVars, model, opened, last, totals, csvData,
                   walkVars, wp, shouldCommit, commits, report>>

\* workingCopy.commitToRepository succeeds: the backend has the tree
CommitToRepository ==
    /\ pc = "commit"
    /\ commits' = Append(commits,
                         [totalModified |-> TotalModified(totals),
                          mapped |-> totals.mapped,
                          widgetPropsMapped |-> totals.widgetPropsMapped,
                          removed |-> totals.removed,
                          tree |-> model])
    /\ pc' = "committed"
    /\ UNCHANGED <<envVars, catalogueVars, model, opened, last, totals, csvData,
                   walkVars, wp, shouldCommit, flushCalls, report>>

\* workingCopy.commitToRepository throws: main's catch
CommitFails ==
    /\ pc = "commit"
    /\ pc' = "failed"
    /\ UNCHANGED <<envVars, catalogueVars, model, opened, last, totals, csvData,
                   walkVars, wp, backendVars, report>>

Next ==
    \/ LoadMappings
    \/ CheckConfig
    \/ OpenModel
    \/ OpenModelFails
    \/ NextModule
    \/ EndCollection
    \/ LoadDocument
    \/ LoadDocumentFails
    \/ EndTraverse
    \/ AnalyzeWidget
    \/ BuildSpacing
    \/ FinishSpacing
    \/ ExecuteWidget
    \/ Report
    \/ Confirm
    \/ FlushChanges
    \/ CommitToRepository
    \/ CommitFails

Spec == Init /\ [][Next]_vars

\* ------------------------------------------------------------------------
\* Properties
\* ------------------------------------------------------------------------
\* the audit rows that record a queued change
ChangeActions == {"mapped", "removed", "widgetPropertySet"}
QueuedRows == {i \in DOMAIN csvData : csvData[i].action \in ChangeActions}

\* C1: when the operator declines, flushChanges and commitToRepository have
\* not been called and are never called, while the counts mapped + removed +
\* widget properties set of the run are not zero.
C1_DeclineLeavesBackendUntouched ==
    shouldCommit = "no" =>
        /\ flushCalls = 0
        /\ commits = <<>>
        /\ TotalModified(totals) > 0

\* C1 witness: the operator was asked and declined.
C1_Declined == pc = "cancelled" /\ shouldCommit = "no" /\ model # opened

\* C2 as stated: no property or attribute of the loaded tree is changed
\* before the confirmation has been accepted.
C2_TreeUntouchedBeforeAccept == shouldCommit # "yes" => model = opened

\* C2 as amended: the first pass over an element's properties changes nothing
\* in the tree, the queued changes are applied when processWidget ends, before
\* the operator is asked; only flushChanges and commitToRepository wait for
\* the operator's yes.
C2_StagedPerElementBackendAfterAccept ==
    [][/\ (pc = "traverse" /\ pc' \in {"spacing", "execute"} => model' = model)
       /\ (pc = "execute" => shouldCommit = "unasked")
       /\ (flushCalls' # flushCalls \/ commits' # commits => shouldCommit = "yes")]_vars

\* C2 witness: a tree changed by processWidget while the operator has not
\* been asked yet.
C2_ChangedBeforeAsked ==
    pc = "confirm" /\ shouldCommit = "unasked" /\ model # opened /\ last # NoLast

\* C3: a run in which a change was queued for some element does not end
\* without the commit summary and the confirmation prompt.
C3_QueuedChangeReachesConfirmation == pc = "unmodified" => QueuedRows = {}

\* --- the widget processWidget last changed: lists, rules, rows ---
Processed == last # NoLast
Before == last.before.designProperties
After == last.after.designProperties
Ids(list) == {list[i].id : i \in DOMAIN list}

\* the rule the first pass resolves for a property of the last widget, or
\* undefined when the pass does not look the property up or finds none
ResolvedRule(p) ==
    IF p.key = "" \/ p.key \notin MAPPED_PROPERTY_NAMES \/ extractPropertyValue(p) = ""
    THEN undefined
    ELSE findMapping(p.key, extractPropertyValue(p), last.l.widgetType)

\* the audit rows of property id of the last widget
RowsOf(id) ==
    {k \in DOMAIN csvData : /\ csvData[k].document = last.l.docName
                            /\ csvData[k].element = last.l.widgetName
                            /\ csvData[k].prop = id}

\* no entry of the rule index under the exact key nor under the wildcard key
NoIndexEntry(p, elementType) ==
    /\ LookupKey(p.key, extractPropertyValue(p), elementType) \notin DOMAIN MAPPINGS_LOOKUP
    /\ LookupKey(p.key, extractPropertyValue(p), "*") \notin DOMAIN MAPPINGS_LOOKUP

\* C4: every property of a processed element that has no entry in the rule
\* index, exact or wildcard, is still on the element unchanged and has an
\* audit row with the decision skipped.
C4_UnmappedKeptAndRecordedSkipped ==
    Processed =>
        \A i \in DOMAIN Before :
            NoIndexEntry(Before[i], last.l.widgetType) =>
                /\ Before[i] \in Range(After)
                /\ \E k \in RowsOf(Before[i].id) : csvData[k].action = "skipped"

\* --- collisions of rewrites on one target ---
IsSpacingRule(m) == m.action = "map" /\ m.mappedProperty = "Spacing" /\ m.mappedDirection # ""

\* the target a property is rewritten to by a non-spacing Rewrite rule; ""
\* when no such rule resolves for it
RewriteTarget(p) ==
    LET m == ResolvedRule(p)
    IN  IF m.action = "map" /\ ~IsSpacingRule(m) THEN m.mappedProperty ELSE ""

\* the positions of the properties of the last widget that claim target t
Claimants(t) == {i \in DOMAIN Before : RewriteTarget(Before[i]) = t}

First(S) == CHOOSE i \in S : \A j \in S : i <= j

RewriteTargets == {MAPPINGS_DATA[i].mappedProperty : i \in DOMAIN MAPPINGS_DATA} \ {""}

\* C5: of the properties of one element that resolve to non-spacing Rewrite
\* rules (target name and target value populated) with the same target, the
\* first in list order is rewritten to the target and recorded mapped once,
\* every other one is deleted and recorded removed once, with the collision
\* reason.
C5_FirstClaimantWins ==
    Processed =>
        \A t \in RewriteTargets :
            LET claimants == Claimants(t)
                first == First(claimants)
            IN  (/\ claimants # {}
                 /\ \A i \in claimants : ResolvedRule(Before[i]).mappedValue # "")
                =>
                /\ \E q \in Range(After) :
                      /\ q.id = Before[first].id
                      /\ q.key = t
                      /\ q.value = OptionValue(ResolvedRule(Before[first]).mappedValue)
                /\ Cardinality(RowsOf(Before[first].id)) = 1
                /\ \A k \in RowsOf(Before[first].id) : csvData[k].action = "mapped"
                /\ \A i \in claimants \ {first} :
                      /\ Before[i].id \notin Ids(After)
                      /\ Cardinality(RowsOf(Before[i].id)) = 1
                      /\ \A k \in RowsOf(Before[i].id) :
                            /\ csvData[k].action = "removed"
                            /\ csvData[k].reason = CollisionReason(t)

\* C5 witness: two properties of one element claimed the same target.
C5_CollisionHappened ==
    /\ Processed
    /\ \E t \in RewriteTargets :
          /\ Cardinality(Claimants(t)) >= 2
          /\ \A i \in Claimants(t) : ResolvedRule(Before[i]).mappedValue # ""
    /\ last.l.result.mapped = 1 /\ last.l.result.removed = 1

\* --- the resolver ---
QueryNames == {PropUniverse[i].key : i \in DOMAIN PropUniverse}
QueryValues == {extractPropertyValue(Prop(0, "", PropUniverse[i].value)) :
                   i \in DOMAIN PropUniverse}
QueryTypes == {"ActionButton", "DivContainer", "ListView", "LayoutGrid"}

\* the keys loadMappings indexes a rule under
KeysOf(m) == {LookupKey(m.property, m.value, m.elementTypes[j]) : j \in DOMAIN m.elementTypes}

\* C6: findMapping returns the rule indexed under the exact key if there is
\* one, otherwise the rule indexed under the wildcard key if there is one,
\* otherwise none; the index holds, under each key of each loaded rule, the
\* last loaded rule that has this key, and nothing else. Stated of the state
\* loadMappings leaves: no later step writes the index.
C6_ExactThenWildcard ==
    pc = "config" =>
        /\ \A n \in QueryNames, v \in QueryValues, t \in QueryTypes :
              LET exact == LookupKey(n, v, t)
                  wild == LookupKey(n, v, "*")
                  found == findMapping(n, v, t)
              IN  /\ exact \in DOMAIN MAPPINGS_LOOKUP => found = MAPPINGS_LOOKUP[exact]
                  /\ exact \notin DOMAIN MAPPINGS_LOOKUP /\ wild \in DOMAIN MAPPINGS_LOOKUP
                        => found = MAPPINGS_LOOKUP[wild]
                  /\ exact \notin DOMAIN MAPPINGS_LOOKUP /\ wild \notin DOMAIN MAPPINGS_LOOKUP
                        => found = undefined
        /\ DOMAIN MAPPINGS_LOOKUP = UNION {KeysOf(MAPPINGS_DATA[i]) : i \in DOMAIN MAPPINGS_DATA}
        /\ \A k \in DOMAIN MAPPINGS_LOOKUP :
              LET holders == {i \in DOMAIN MAPPINGS_DATA : k \in KeysOf(MAPPINGS_DATA[i])}
              IN  MAPPINGS_LOOKUP[k] =
                      MAPPINGS_DATA[CHOOSE i \in holders : \A j \in holders : j <= i]

\* C6 witness: a type-specific rule and a wildcard rule for the same name and
\* value are loaded, and the type-specific one decided a processed property.
C6_SpecificBeatsWildcard ==
    /\ Processed
    /\ \E i \in DOMAIN Before :
          LET p == Before[i]
              exact == LookupKey(p.key, extractPropertyValue(p), last.l.widgetType)
              wild == LookupKey(p.key, extractPropertyValue(p), "*")
          IN  /\ exact \in DOMAIN MAPPINGS_LOOKUP
              /\ wild \in DOMAIN MAPPINGS_LOOKUP
              /\ MAPPINGS_LOOKUP[exact] # MAPPINGS_LOOKUP[wild]
              /\ \E k \in DOMAIN last.l.toModify :
                    /\ last.l.toModify[k].prop = p.id
                    /\ last.l.toModify[k].mapping = MAPPINGS_LOOKUP[exact]

\* --- spacing aggregation ---
\* the positions of the properties of the last widget that contribute to slot
Contributors(slot) ==
    {i \in DOMAIN Before :
        LET m == ResolvedRule(Before[i])
        IN  /\ IsSpacingRule(m)
            /\ m.mappedDirection = slot[2]
            /\ (IF m.mappedType = "padding" THEN "padding" ELSE "margin") = slot[1]}

AnyContributor == {i \in DOMAIN Before : IsSpacingRule(ResolvedRule(Before[i]))}

\* the value a compound property holds for a slot; "None" when it has none
SlotValue(p, slot) ==
    LET hits == {j \in DOMAIN p.value.properties :
                    /\ p.value.properties[j].key = SlotKey(slot)
                    /\ p.value.properties[j].value.option # ""}
    IN  IF p.value.tag # "Compound" \/ hits = {} THEN "None"
        ELSE p.value.properties[CHOOSE j \in hits : \A h \in hits : h <= j].value.option

\* the value the slot has in the Spacing property the element had before
ExistingValue(slot) ==
    LET hits == {i \in DOMAIN Before : Before[i].key = "Spacing"}
    IN  IF hits = {} THEN "None" ELSE SlotValue(Before[First(hits)], slot)

\* what the claim says the slot holds: the last contribution, else the
\* existing value, else nothing ("None")
ExpectedValue(slot) ==
    LET cs == Contributors(slot)
    IN  IF cs = {} THEN ExistingValue(slot)
        ELSE LET m == ResolvedRule(Before[CHOOSE i \in cs : \A j \in cs : j <= i])
             IN  IF m.mappedValue = "" THEN "None" ELSE m.mappedValue

\* the Spacing properties the element has after processing that it did not
\* have before
NewSpacing == {q \in Range(After) : q.key = "Spacing" /\ q.id \notin Ids(Before)}

\* C7: after an element with at least one spacing contribution is processed,
\* the new compound Spacing property holds, for each of the eight slots, the
\* value of the last contribution to the slot, else the value the slot had in
\* the existing Spacing property, else no entry; it has no other entries.
C7_SpacingMerge ==
    Processed /\ AnyContributor # {} =>
        /\ Cardinality(NewSpacing) = 1
        /\ \A q \in NewSpacing :
              /\ q.value.tag = "Compound"
              /\ \A slot \in Range(SlotOrder) : SlotValue(q, slot) = ExpectedValue(slot)
              /\ Len(q.value.properties) =
                     Cardinality({slot \in Range(SlotOrder) : ExpectedValue(slot) # "None"})
              /\ \A j \in DOMAIN q.value.properties :
                     SlotsOfKey(q.value.properties[j].key) # {}

\* C7 witness: existing {margin-top=Small} and one contribution for
\* padding-left gave exactly the entries margin-top=Small, padding-left=Large.
C7_ExistingSidePreserved ==
    /\ Processed
    /\ Len(Before) = 2
    /\ \E i \in DOMAIN Before :
          Before[i].value = CompoundValue(<<Inner("margin-top", "Small")>>)
    /\ Contributors(<<"padding", "left">>) # {}
    /\ \E q \in NewSpacing :
          q.value.properties = <<Inner("margin-top", "Small"), Inner("padding-left", "Large")>>

\* C8: processing an element whose only property is the compound Spacing
\* property leaves its property list, and so the compound value, unchanged.
C8_MigratedElementUnchanged ==
    (/\ Processed
     /\ \A i \in DOMAIN Before :
           Before[i].key = "Spacing" /\ Before[i].value.tag = "Compound")
    => After = Before

\* C8 witness: an element carrying only the compound Spacing was processed.
C8_OnlySpacingProcessed ==
    /\ Processed
    /\ Len(Before) = 1
    /\ Before[1].key = "Spacing" /\ Before[1].value.tag = "Compound"
    /\ After = Before

\* --- what a commit carries ---
\* the widgets of a tree with the given document and element name
WidgetsNamed(tree, docName, element) ==
    UNION {{d.widgets[w] : w \in {w \in DOMAIN d.widgets : d.widgets[w].name = element}} :
              d \in {d \in Range(tree.pages) \cup Range(tree.snippets)
                           \cup Range(tree.layouts) : d.qualifiedName = docName}}

\* C9: a tree that is committed reflects every queued change the commit
\* summary counts: a property recorded mapped by a non-spacing rule has the
\* recorded key and value, a property recorded removed is gone.
C9_CommitCarriesEveryCountedChange ==
    \A c \in DOMAIN commits :
        \A k \in DOMAIN csvData :
            \A w \in WidgetsNamed(commits[c].tree, csvData[k].document, csvData[k].element) :
                /\ (csvData[k].action = "mapped" /\ csvData[k].mappedProperty # "Spacing"
                    => \E q \in Range(w.designProperties) :
                          /\ q.id = csvData[k].prop
                          /\ q.key = csvData[k].mappedProperty
                          /\ q.value = OptionValue(csvData[k].mappedValue))
                /\ (csvData[k].action = "removed"
                    => csvData[k].prop \notin Ids(w.designProperties))

\* --- start-up ---
\* the rule source is present and has the expected shape
SourceWellFormed ==
    /\ source.exists /\ source.parseable /\ source.hasMappings
    /\ \A i \in DOMAIN source.mappings :
          source.mappings[i].property # "" /\ source.mappings[i].value # ""
              => source.mappings[i].hasTypes

\* C10: the working copy is opened and the tree read only after the rule
\* source was loaded in the expected shape and token and app id are present;
\* with an absent or malformed rule source the run ends before the tree is
\* opened, and nothing is changed, flushed or committed.
C10_NoTreeAccessWithoutStartup ==
    /\ (pc \notin {"start", "config", "exit", "returned"} \/ model # NoModel)
          => SourceWellFormed /\ MENDIX_TOKEN # "" /\ APP_ID # ""
    /\ (pc # "start" /\ ~SourceWellFormed)
          => /\ pc = "exit"
             /\ model = NoModel /\ opened = NoModel
             /\ csvData = <<>> /\ flushCalls = 0 /\ commits = <<>>

\* C10 witness: a rule source that exists but is malformed stopped the run.
C10_MalformedSourceStops ==
    pc = "exit" /\ source.exists /\ ~SourceWellFormed /\ MENDIX_TOKEN # "" /\ APP_ID # ""

\* --- redirects of the last widget ---
\* whether the SDK class of the widget declares the attribute
SupportsAttribute(widget, name) == name = "buttonStyle" /\ IsActionButton(widget)

\* whether a redirect is one the element or the attribute's values rule out
Unsupported(widget, m) ==
    \/ ~SupportsAttribute(widget, m.widgetProperty)
    \/ m.widgetValue \notin ButtonStyles

\* C11: a redirect to an attribute the element does not support, or to a
\* value that is not one of the attribute's known values, fails: the
\* attribute is not set on the element.
C11_UnsupportedRedirectFails ==
    Processed =>
        \A i \in DOMAIN last.l.toSetWidgetProp :
            LET m == last.l.toSetWidgetProp[i].mapping
            IN  Unsupported(last.before, m) =>
                    <<m.widgetProperty, m.widgetValue>> \notin last.after.attrs

\* --- the walk of main and processDocumentCollection ---
WalkPcs == {"modules", "docs", "traverse", "spacing", "spacing2", "execute"}

RedirectsIsolated ==
    Processed =>
        \A i \in DOMAIN last.l.toSetWidgetProp :
            LET item == last.l.toSetWidgetProp[i]
            IN  IF applyWidgetPropertyMapping(last.before, item.mapping).threw
                THEN item.prop \in Ids(After)
                ELSE item.prop \notin Ids(After)

\* a step of the walk moves to the same or to the next unit (module,
\* collection, document, widget), whether or not the unit failed, and the
\* walk ends in the report
WalkStep ==
    /\ pc \in WalkPcs => pc' \in WalkPcs \cup {"report"}
    /\ pc' = "failed" => pc \in {"open", "commit"}
    /\ pc' = "report" => modIdx > Len(model.modules)
    /\ pc = "modules" => modIdx' \in {modIdx, modIdx + 1}
    /\ pc = "docs" /\ docIdx <= Len(documents) =>
          /\ <<modIdx', coll', documents'>> = <<modIdx, coll, documents>>
          /\ \/ docIdx' = docIdx + 1 /\ pc' = "docs"
             \/ docIdx' = docIdx /\ pc' = "traverse" /\ widIdx' = 1
    /\ pc = "docs" /\ docIdx > Len(documents) =>
          IF coll < 3 THEN coll' = coll + 1 /\ modIdx' = modIdx /\ docIdx' = 1
          ELSE modIdx' = modIdx + 1
    /\ pc \in {"traverse", "spacing", "spacing2", "execute"} =>
          /\ <<modIdx', coll', documents'>> = <<modIdx, coll, documents>>
          /\ IF widIdx <= Len(CurDoc.widgets)
             THEN docIdx' = docIdx /\ widIdx' \in {widIdx, widIdx + 1}
             ELSE docIdx' = docIdx + 1 /\ pc' = "docs"

C13_PagePropertiesRemoved ==
    [][pc = "docs" /\ pc' = "traverse" /\ coll = 1 =>
          LET props == CurDoc.designProperties
              n == Len(props)
          IN  /\ CurDoc'.designProperties = <<>>
              /\ Len(csvData') = Len(csvData) + n
              /\ SubSeq(csvData', 1, Len(csvData)) = csvData
              /\ \A i \in 1..n :
                    LET row == csvData'[Len(csvData) + i]
                    IN  /\ row.action = "removed"
                        /\ row.reason = PageReason
                        /\ row.elementType = "Page"
                        /\ row.document = CurDoc.qualifiedName
                        /\ row.prop = props[i].id
                        /\ row.property = props[i].key
              /\ result'.props = result.props + n
              /\ result'.removed = result.removed + n
              /\ result'.mapped = result.mapped
              /\ result'.skipped = result.skipped]_vars

\* C13 witness: a page that carried two design properties, one of them with
\* a name the rule index covers, has been loaded and has none left.
C13_PageWithPropertiesLoaded ==
    /\ pc = "traverse" /\ coll = 1 /\ widIdx = 1
    /\ Len(opened.pages[documents[docIdx]].designProperties) = 2
    /\ CurDoc.designProperties = <<>>
    /\ "Justify content" \in MAPPED_PROPERTY_NAMES
    /\ result.removed = 2

\* --- pages that call a native layout ---
\* the page calls a layout of the native profile
DeclaresNativeLayout(doc) == \E i \in DOMAIN doc.layout : doc.layout[i] = "Native"

\* the rows of the audit data that name the document
RowsOfDocument(name) == {k \in DOMAIN csvData : csvData[k].document = name}

\* the step at a page with a native layout: nothing but the position of the
\* walk and the native-layout counter changes, no widget is visited
NativePageStep ==
    pc = "docs" /\ docIdx <= Len(documents) /\ coll = 1
    /\ DeclaresNativeLayout(CurDoc) =>
        /\ pc' = "docs" /\ docIdx' = docIdx + 1
        /\ model' = model /\ csvData' = csvData /\ last' = last
        /\ [result' EXCEPT !.skippedNativeLayouts = 0]
             = [result EXCEPT !.skippedNativeLayouts = 0]
        /\ result'.skippedNativeLayouts - result.skippedNativeLayouts \in {0, 1}

\* at the end of the walk a page with a native layout is as it was opened
\* and no audit row names it
NativePageUntouched ==
    pc = "report" /\ opened \in PageTrees /\ DeclaresNativeLayout(opened.pages[2]) =>
        /\ model.pages = opened.pages
        /\ RowsOfDocument("App.Home") = {}
        /\ totals.skippedNativeLayouts \in {0, 1}

\* C14: a page that calls a native layout is skipped in full: its widgets
\* are not traversed, none of its properties changes, no audit row is
\* written for it, and only the native-layout counter counts it.
C14_NativeLayoutPageSkipped == []NativePageUntouched /\ [][NativePageStep]_vars

\* C14 witness: a page with a native layout, own design properties and a
\* container a rule applies to was skipped and counted once.
C14_NativePageSkippedOnce ==
    /\ pc = "report" /\ opened \in PageTrees
    /\ DeclaresNativeLayout(opened.pages[2])
    /\ Len(opened.pages[2].designProperties) = 2
    /\ findMapping("Justify content", "Center", "DivContainer") # undefined
    /\ totals.skippedNativeLayouts = 1

\* C15: every property the first pass queued for a rewrite and recorded as
\* mapped has, once the element is processed, the rule's mappedProperty as
\* its key and a single-option value holding the rule's mappedValue.
C15_MappedPropertyRewritten ==
    Processed =>
        \A i \in DOMAIN last.l.toModify :
            LET item == last.l.toModify[i]
                prop == PropById(After, item.prop)
            IN  /\ item.prop \in Ids(After)
                /\ prop.key = item.mapping.mappedProperty
                /\ prop.value = OptionValue(item.mapping.mappedValue)

\* --- the compound Spacing property as written ---
SpacingKeys == {k \o "-" \o side : k \in Kinds, side \in Sides}

\* no "None" entry, only margin-<side> and padding-<side> keys, each once
WellFormedSpacing(q) ==
    /\ q.value.tag = "Compound"
    /\ \A j \in DOMAIN q.value.properties :
          LET entry == q.value.properties[j]
          IN  /\ entry.value.tag = "Option"
              /\ entry.value.option \notin {"None", ""}
              /\ entry.key \in SpacingKeys
              /\ \A h \in DOMAIN q.value.properties :
                    q.value.properties[h].key = entry.key => h = j

\* C16: the Spacing property the aggregation writes has no entry with the
\* value "None"; its keys are margin-<side> or padding-<side>, each at most
\* once. Stated for the property as just created and for the processed
\* element.
C16_NoNoneEntryWritten ==
    /\ pc = "spacing2" =>
          WellFormedSpacing(CurWidget.designProperties[Len(CurWidget.designProperties)])
    /\ Processed => \A q \in NewSpacing : WellFormedSpacing(q)

\* C16 witness: a contribution whose rule has no value ("None") and one for
\* padding-left gave a Spacing property with the single entry padding-left.
C16_NoneSlotOmitted ==
    /\ Processed
    /\ \E i \in AnyContributor : ResolvedRule(Before[i]).mappedValue = ""
    /\ \E q \in NewSpacing : q.value.properties = <<Inner("padding-left", "Large")>>

\* --- the source properties of the spacing aggregation ---
\* the rows of the audit data written for the last widget
RowsOfLast ==
    {k \in DOMAIN csvData : /\ csvData[k].document = last.l.docName
                            /\ csvData[k].element = last.l.widgetName}

\* C17: a property that contributes to the spacing aggregation has exactly
\* one audit row, with action mapped and target Spacing, is not counted as
\* removed, and is no longer in the element's list once the element is
\* processed.
C17_ContributorMappedAndGone ==
    Processed =>
        /\ \A i \in AnyContributor :
              /\ Cardinality(RowsOf(Before[i].id)) = 1
              /\ \A k \in RowsOf(Before[i].id) :
                    /\ csvData[k].action = "mapped"
                    /\ csvData[k].mappedProperty = "Spacing"
                    /\ csvData[k].property = Before[i].key
              /\ Before[i].id \notin Ids(After)
        /\ last.l.result.removed =
              Cardinality({k \in RowsOfLast : csvData[k].action = "removed"})
        /\ \A k \in RowsOfLast :
              csvData[k].action = "removed" =>
                  \A i \in AnyContributor : csvData[k].prop # Before[i].id

\* C17 witness: an element with two contributing properties was processed;
\* both are counted as mapped, none as removed.
C17_TwoContributorsProcessed ==
    /\ Processed
    /\ Cardinality(AnyContributor) = 2
    /\ last.l.result.mapped = 2 /\ last.l.result.removed = 0
    /\ Cardinality(NewSpacing) = 1 /\ Len(After) = 1

\* --- the replacement of an existing Spacing property ---
\* the positions of the properties with key "Spacing" in a list
SpacingAt(list) == {i \in DOMAIN list : list[i].key = "Spacing"}

\* C18 as stated: while an element is processed its list never holds two
\* properties with key "Spacing".
C18_NeverTwoSpacingProperties ==
    pc \in {"spacing", "spacing2", "execute"} =>
        Cardinality(SpacingAt(CurWidget.designProperties)) <= 1

\* C18 as amended: the new Spacing property is created in the list first,
\* while the existing one is still there, and the existing one is removed
\* right after; when the aggregation is done the list holds exactly one
\* Spacing property, the new one.
C18_InsertThenDelete ==
    /\ pc = "spacing2" =>
          Cardinality(SpacingAt(CurWidget.designProperties))
              = Cardinality(SpacingAt(wp.before.designProperties)) + 1
    /\ pc = "execute" /\ Len(wp.spacingPropertiesToMap) > 0 =>
          /\ Cardinality(SpacingAt(CurWidget.designProperties)) = 1
          /\ \A i \in SpacingAt(CurWidget.designProperties) :
                CurWidget.designProperties[i].id \notin Ids(wp.before.designProperties)

\* C18 witness: the aggregation has replaced an existing Spacing property.
C18_ExistingSpacingReplaced ==
    /\ pc = "execute"
    /\ wp.existingSpacingProp # 0
    /\ Len(wp.spacingPropertiesToMap) > 0
    /\ Cardinality(SpacingAt(CurWidget.designProperties)) = 1

\* --- the totals of the run ---
WalkDone == pc \in {"report", "unmodified", "confirm", "cancelled", "flush",
                    "commit", "committed"}

\* C19: when the walk is over, the number of properties counted in the totals
\* equals the sum of the totals mapped, removed, widget properties mapped and
\* skipped.
C19_CountsAddUp ==
    WalkDone =>
        totals.props = totals.mapped + totals.removed
                       + totals.widgetPropsMapped + totals.skipped

\* --- the keys of an element's list ---
DistinctKeys(list) ==
    \A i, j \in DOMAIN list : list[i].key = list[j].key => i = j

\* C20: an element whose properties had pairwise distinct keys before it was
\* processed has pairwise distinct keys afterwards.
C20_KeysStayDistinct == Processed /\ DistinctKeys(Before) => DistinctKeys(After)

\* --- soundness of the resolver ---
\* C21: a rule that findMapping returns for a property of an element has the
\* property's name and value as its property and value, and the element's
\* type or "*" among its elementTypes.
C21_ResolvedRuleMatchesQuery ==
    Processed =>
        \A i \in DOMAIN Before :
            LET m == ResolvedRule(Before[i])
            IN  m # undefined =>
                    /\ m.property = Before[i].key
                    /\ m.value = extractPropertyValue(Before[i])
                    /\ \/ last.l.widgetType \in Range(m.elementTypes)
                       \/ "*" \in Range(m.elementTypes)

\* --- the audit rows of redirects ---
\* C22: when the walk is over, every property with a widgetPropertySet row
\* is gone from its element's list, and the element has the attribute the
\* row names with the value the row names.
C22_RedirectRowsAreTrue ==
    WalkDone =>
        \A k \in DOMAIN csvData :
            csvData[k].action = "widgetPropertySet" =>
                \A w \in WidgetsNamed(model, csvData[k].document, csvData[k].element) :
                    /\ <<csvData[k].mappedProperty, csvData[k].mappedValue>> \in w.attrs
                    /\ csvData[k].prop \notin Ids(w.designProperties)

\* --- documents and their modules ---
\* the document belongs to the module: its qualified name is Module.Name
BelongsTo(qualifiedName, moduleName) == StartsWith(qualifiedName, moduleName \o ".")

\* C23: a document is traversed and audited only under the module it
\* belongs to, so under one module only, and never when it belongs to the
\* module System.
C23_DocumentUnderOwnModuleOnly ==
    /\ pc \in {"traverse", "spacing", "spacing2", "execute"} =>
          /\ BelongsTo(CurDoc.qualifiedName, model.modules[modIdx])
          /\ ~BelongsTo(CurDoc.qualifiedName, "System")
    /\ \A k \in DOMAIN csvData :
          /\ BelongsTo(csvData[k].document, csvData[k].module)
          /\ csvData[k].module # "System"

====
